---- MODULE Spec2Model ----
(***************************************************************************)
(* Retrieval-augmented content pipeline of the NCERT learning backend:     *)
(* the retriever (pinecone_service.py), the generation orchestrator        *)
(* (llm_service.py) and the request handlers that use them (routers/).     *)
(*                                                                         *)
(* Similarity scores are integers in hundredths (0.25 is 25).  A uuid4 is  *)
(* the next unused positive integer.  An Optional[str] is a string, with   *)
(* NoneStr standing for None.  A JSON value produced by the generative     *)
(* model is a tagged record [t |-> <type>, v |-> <value>].                 *)
(***************************************************************************)
EXTENDS Integers, Sequences, FiniteSets, TLC

VARIABLES
    quiz_storage,        \* routers/quiz.py: quiz_storage, quiz_id -> stored quiz
    evaluation_storage,  \* routers/evaluation.py: evaluation_storage
    last,                \* the request handled last and the response it got
    ret,                 \* the retriever call made last and what it returned
    ing,                 \* ingestion.py: the books folder, the index, the run
    chat,                \* routers/chat.py: the event stream of chat_stream
    app,                 \* the settings and the process that serves requests
    pending,             \* routers/evaluation.py: the request suspended at an await
    tag,                 \* the extract_class_from_filename call made last
    book                 \* ingestion.py: the process_book call made last

vars == <<quiz_storage, evaluation_storage, last, ret, ing, chat, app, pending, tag, book>>

(***************************************************************************)
(* Bounds of the model.                                                    *)
(***************************************************************************)
MaxTopK == 2
MaxQuizzes == 1
MaxEvals == 1

(***************************************************************************)
(* Python values.                                                          *)
(***************************************************************************)
NoneStr == "<None>"

\* Python truthiness of an Optional[str]: None and "" are false.
Truthy(s) == s /= NoneStr /\ s /= ""

Min(a, b) == IF a <= b THEN a ELSE b

\* s[:n] for n >= 0
Take(s, n) == SubSeq(s, 1, Min(n, Len(s)))

SeqsUpTo(S, n) == UNION {[1..k -> S] : k \in 0..n}

(***************************************************************************)
(* Retriever: PineconeService.                                             *)
(***************************************************************************)
MinScore == 25

Classes == {"Class VIII", "Class IX"}
ClassLevels == Classes \cup {NoneStr, ""}
TopicNames == {"Light", NoneStr}
Scores == {0, 24, 25, 90}

\* A match of the vector store: its score and the class of its metadata.
Matches == [score : Scores, class : Classes]

Ranked(ms) == \A i \in 1..(Len(ms) - 1) : ms[i].score >= ms[i + 1].score

\* enhanced_query: the topic name is prefixed when there is one.
EnhancedQuery(query, topic_name) ==
    IF Truthy(topic_name) THEN <<topic_name>> \o query ELSE query

FilterDict_NeverSet(class_level) == [has |-> FALSE, class |-> NoneStr]

\* filter_dict: {"class": class_level} when a class is given, else {}.
FilterDict(class_level) ==
    IF Truthy(class_level) THEN [has |-> TRUE, class |-> class_level]
    ELSE [has |-> FALSE, class |-> NoneStr]

\* query_top_k = top_k, with or without a filter
QueryTopK_NoDoubling(filter_dict, top_k) == top_k

\* query_top_k = top_k * 2 if filter_dict else top_k
QueryTopK(filter_dict, top_k) == IF filter_dict.has THEN top_k * 2 ELSE top_k

\* index.query: what the vector store may answer: at most top_k matches,
\* highest score first, all of them satisfying the metadata filter.
IndexQuery(top_k, filter_dict) ==
    LET allowed == {m \in Matches : filter_dict.has => m.class = filter_dict.class}
    IN  {ms \in SeqsUpTo(allowed, top_k) : Ranked(ms)}

AboveThreshold_Positive(match) == match.score > 0

\* match.score >= 0.25
AboveThreshold(match) == match.score >= MinScore

FormatChunk(match) == [score |-> match.score, class |-> match.class]

\* The loop over results.matches: a match at or above the threshold is
\* formatted and appended, in the order of the store's answer.
RECURSIVE FormatResults(_)
FormatResults(ms) ==
    IF ms = <<>> THEN <<>>
    ELSE (IF AboveThreshold(Head(ms)) THEN <<FormatChunk(Head(ms))>> ELSE <<>>)
         \o FormatResults(Tail(ms))

FilterAndTruncate_NoSlice(matches, top_k) == FormatResults(matches)

\* chunks[:top_k] if chunks else []
FilterAndTruncate(matches, top_k) ==
    LET chunks == FormatResults(matches)
    IN  IF chunks /= <<>> THEN Take(chunks, top_k) ELSE <<>>

\* get_relevant_chunks, given whether the embedding call and the store query
\* succeed and what the store answers.
GetRelevantChunks(query, topic_name, class_level, top_k, embed_ok, query_ok, matches) ==
    LET filter_dict == FilterDict(class_level)
        call == [embedded |-> EnhancedQuery(query, topic_name),
                 store_top_k |-> QueryTopK(filter_dict, top_k),
                 store_filter |-> filter_dict]
    IN  IF ~embed_ok
        THEN [raised |-> TRUE, chunks |-> <<>>,
              call |-> [call EXCEPT !.store_top_k = 0], queried |-> FALSE]
        ELSE IF ~query_ok
        THEN [raised |-> TRUE, chunks |-> <<>>, call |-> call, queried |-> TRUE]
        ELSE [raised |-> FALSE, chunks |-> FilterAndTruncate(matches, top_k),
              call |-> call, queried |-> TRUE]

\* The store answers of one get_relevant_chunks call.
StoreAnswers(class_level, top_k) ==
    IndexQuery(QueryTopK(FilterDict(class_level), top_k), FilterDict(class_level))

\* search_by_topic: the query is "{topic_name} {class_level}".
SearchByTopicQuery(topic_name, class_level) == <<topic_name, class_level>>

NoCall == [fn |-> "none", class_level |-> NoneStr, top_k |-> 0, matches |-> <<>>,
           out |-> [raised |-> FALSE, chunks |-> <<>>, queried |-> FALSE,
                    call |-> [embedded |-> <<>>, store_top_k |-> 0,
                              store_filter |-> FilterDict(NoneStr)]]]

\* The retriever keeps no state between calls: one call is made from the
\* initial state, with every input and every answer of the store.
CallGetRelevantChunks ==
    \E topic_name \in TopicNames, class_level \in ClassLevels, top_k \in 1..MaxTopK,
       embed_ok \in BOOLEAN, query_ok \in BOOLEAN :
        \E matches \in StoreAnswers(class_level, top_k) :
            /\ ret = NoCall
            /\ (~embed_ok \/ ~query_ok) => matches = <<>>
            /\ ~embed_ok => query_ok
            /\ ret' = [fn |-> "get_relevant_chunks", class_level |-> class_level,
                       top_k |-> top_k, matches |-> matches,
                       out |-> GetRelevantChunks(<<"what", "is", "it">>, topic_name,
                                   class_level, top_k, embed_ok, query_ok, matches)]
            /\ UNCHANGED <<quiz_storage, evaluation_storage, last, ing, chat, app, pending, tag, book>>

CallSearchByTopic ==
    \E topic_name \in TopicNames \ {NoneStr}, class_level \in ClassLevels \ {NoneStr},
       top_k \in 1..MaxTopK, embed_ok \in BOOLEAN, query_ok \in BOOLEAN :
        \E matches \in StoreAnswers(class_level, top_k) :
            /\ ret = NoCall
            /\ (~embed_ok \/ ~query_ok) => matches = <<>>
            /\ ~embed_ok => query_ok
            /\ ret' = [fn |-> "search_by_topic", class_level |-> class_level,
                       top_k |-> top_k, matches |-> matches,
                       out |-> GetRelevantChunks(
                                   SearchByTopicQuery(topic_name, class_level),
                                   topic_name, class_level, top_k,
                                   embed_ok, query_ok, matches)]
            /\ UNCHANGED <<quiz_storage, evaluation_storage, last, ing, chat, app, pending, tag, book>>

(***************************************************************************)
(* JSON values in the generative model's output.  A field of a JSON object *)
(* is [t |-> "missing"] when the key is absent, [t |-> "null"] for null.   *)
(***************************************************************************)
S(x) == [t |-> "str", v |-> x]
SMissing == [t |-> "missing", v |-> ""]
SNull == [t |-> "null", v |-> ""]
L(x) == [t |-> "list", v |-> x]
LMissing == [t |-> "missing", v |-> <<>>]
LNull == [t |-> "null", v |-> <<>>]

\* dict.get(key, default)
Get(field, default) == IF field.t = "missing" THEN default ELSE field

\* dict.get(key): None when the key is absent
GetOrNone(field) == IF field.t = "missing" THEN [field EXCEPT !.t = "null"] ELSE field

(***************************************************************************)
(* What the generative model may answer to the quiz prompt.                *)
(***************************************************************************)
FourOptions == <<"A", "B", "C", "D">>

QMcq(id) == [question_id |-> S(id), question_type |-> S("mcq"),
             options |-> L(FourOptions), correct_answer |-> S("A")]
QFill(id) == [question_id |-> S(id), question_type |-> S("fill_blank"),
              options |-> LMissing, correct_answer |-> S("prism")]
QShort(id) == [question_id |-> S(id), question_type |-> S("short_answer"),
               options |-> LMissing, correct_answer |-> S("It bends.")]
\* an mcq with two options, whose answer is none of them
QMcqTwoOptions(id) == [question_id |-> S(id), question_type |-> S("mcq"),
                       options |-> L(<<"A", "B">>), correct_answer |-> S("Z")]
\* a fill_blank that carries options
QFillWithOptions(id) == [question_id |-> S(id), question_type |-> S("fill_blank"),
                         options |-> L(FourOptions), correct_answer |-> S("A")]
\* an object with no key at all
QBare == [question_id |-> SMissing, question_type |-> SMissing,
          options |-> LMissing, correct_answer |-> SMissing]
\* "correct_answer": null
QNullAnswer(id) == [question_id |-> S(id), question_type |-> S("mcq"),
                    options |-> L(FourOptions), correct_answer |-> SNull]

QuestionLists ==
    { <<>>,
      <<QMcq("q1"), QFill("q2"), QShort("q3")>>,
      <<QMcq("q1"), QFillWithOptions("q1"), QMcqTwoOptions("q3")>>,
      <<QBare, QBare>>,
      <<QMcq("q1"), QNullAnswer("q2")>> }

\* The completion call raises, or its content is text that is not JSON, a
\* JSON array, or a JSON object with or without a "questions" list.
QuizOutcomes ==
    {[kind |-> k, questions |-> LMissing] : k \in {"raise", "text", "array", "object"}}
    \cup {[kind |-> "object", questions |-> LNull]}
    \cup {[kind |-> "object", questions |-> L(qs)] : qs \in QuestionLists}

NotCalled == [kind |-> "not_called", questions |-> LMissing]

(***************************************************************************)
(* LLMService.generate_quiz                                                *)
(***************************************************************************)
LlmGenerateQuiz_NoFallback(outcome) ==
    IF outcome.kind \in {"raise", "text"}
    THEN [raised |-> TRUE, data |-> [kind |-> "none", questions |-> LMissing]]
    ELSE [raised |-> FALSE,
          data |-> [kind |-> outcome.kind, questions |-> outcome.questions]]

\* json.loads and its except json.JSONDecodeError
LlmGenerateQuiz(outcome) ==
    IF outcome.kind = "raise"
    THEN [raised |-> TRUE, data |-> [kind |-> "none", questions |-> LMissing]]
    ELSE IF outcome.kind = "text"
    THEN [raised |-> FALSE, data |-> [kind |-> "object", questions |-> L(<<>>)]]
    ELSE [raised |-> FALSE,
          data |-> [kind |-> outcome.kind, questions |-> outcome.questions]]

(***************************************************************************)
(* routers/quiz.py                                                         *)
(***************************************************************************)
QuizTopK == 15
MinCount == 1
MaxMcqs == 20
MaxFillBlank == 10
MaxShortAnswer == 10

\* QuizRequest: num_mcqs, num_fill_blank, num_short_answer
QuizCounts == {<<1, 1, 1>>, <<3, 0, 0>>, <<21, 1, 1>>}
RequestClasses == {"Class IX"}
RequestTopic == "Light"

\* Field(ge=1, le=...) of QuizRequest; a request that fails is answered 422
\* before the handler runs.
QuizRequestValid(counts) ==
    /\ MinCount <= counts[1] /\ counts[1] <= MaxMcqs
    /\ MinCount <= counts[2] /\ counts[2] <= MaxFillBlank
    /\ MinCount <= counts[3] /\ counts[3] <= MaxShortAnswer

\* The answers of the store to a handler's search: no match, one match
\* below the threshold, or one match above it.
EndpointAnswers(class_level) ==
    LET filter_dict == FilterDict(class_level)
    IN  {<<>>} \cup {<<m>> : m \in {x \in Matches :
                                     /\ x.score \in {24, 90}
                                     /\ filter_dict.has => x.class = filter_dict.class}}

\* pinecone_service.search_by_topic(topic_name, class_level, top_k), for every
\* outcome of the embedding call and of the store query.
SearchOutcomes(topic_name, class_level, top_k) ==
    {[raised |-> TRUE, chunks |-> <<>>]} \cup
    {[raised |-> FALSE,
      chunks |-> GetRelevantChunks(SearchByTopicQuery(topic_name, class_level),
                     topic_name, class_level, top_k, TRUE, TRUE, ms).chunks] :
        ms \in EndpointAnswers(class_level)}

DefaultQuestionId(i) == "q" \o ToString(i)

\* The arguments of QuizQuestion(...) for the i-th question of the model.
QuestionArgs(q_data, i) ==
    [question_id |-> Get(q_data.question_id, S(DefaultQuestionId(i))),
     question_type |-> Get(q_data.question_type, S("mcq")),
     options |-> GetOrNone(q_data.options),
     correct_answer |-> Get(q_data.correct_answer, S(""))]

\* pydantic's validation of QuizQuestion: the types of the fields, nothing
\* else (question and explanation are carried along and not modelled).
QuizQuestionValid(args) ==
    /\ args.question_id.t = "str"
    /\ args.question_type.t = "str"
    /\ args.options.t \in {"null", "list"}
    /\ args.correct_answer.t = "str"

FormatQuestions(qs) == [i \in 1..Len(qs) |-> QuestionArgs(qs[i], i)]

\* the try block with the assignment to quiz_storage moved before the loop
\* that builds the QuizQuestion objects
GenerateQuizBody_StoreFirst(search, outcome) ==
    LET failed(exc, code, stored) ==
            [exc |-> exc, code |-> code, questions |-> <<>>, stored |-> stored]
        quiz == LlmGenerateQuiz(outcome)
        listed == Get(quiz.data.questions, L(<<>>))
        questions == FormatQuestions(listed.v)
    IN  IF search.raised THEN failed("Exception", 0, FALSE)
        ELSE IF search.chunks = <<>> THEN failed("HTTPException", 404, FALSE)
        ELSE IF quiz.raised THEN failed("Exception", 0, FALSE)
        ELSE IF quiz.data.kind /= "object" THEN failed("AttributeError", 0, FALSE)
        ELSE IF listed.t /= "list" THEN failed("TypeError", 0, FALSE)
        ELSE IF \E i \in 1..Len(questions) : ~QuizQuestionValid(questions[i])
        THEN failed("ValidationError", 0, TRUE)
        ELSE [exc |-> "none", code |-> 200, questions |-> questions, stored |-> TRUE]

\* The try block of generate_quiz: the exception it ends with, or the
\* questions it stores and returns.  The assignment to quiz_storage stands
\* after the loop that builds the QuizQuestion objects.
GenerateQuizBody(search, outcome) ==
    LET failed(exc, code) ==
            [exc |-> exc, code |-> code, questions |-> <<>>, stored |-> FALSE]
        quiz == LlmGenerateQuiz(outcome)
        listed == Get(quiz.data.questions, L(<<>>))
        questions == FormatQuestions(listed.v)
    IN  IF search.raised THEN failed("Exception", 0)
        ELSE IF search.chunks = <<>> THEN failed("HTTPException", 404)
        ELSE IF quiz.raised THEN failed("Exception", 0)
        ELSE IF quiz.data.kind /= "object" THEN failed("AttributeError", 0)
        ELSE IF listed.t /= "list" THEN failed("TypeError", 0)
        ELSE IF \E i \in 1..Len(questions) : ~QuizQuestionValid(questions[i])
        THEN failed("ValidationError", 0)
        ELSE [exc |-> "none", code |-> 200, questions |-> questions, stored |-> TRUE]

\* except Exception as e: raise HTTPException(status_code=500, ...)
ExceptException(body) ==
    IF body.exc = "none" THEN body ELSE [body EXCEPT !.exc = "HTTPException", !.code = 500]

GenerateQuizHandler(search, outcome) == ExceptException(GenerateQuizBody(search, outcome))

\* Whether the handler reaches the completion call.
ReachesModel(search) == ~search.raised /\ search.chunks /= <<>>

\* quiz_id = str(uuid.uuid4()) with an id that is in use already
NewQuizId_First(storage) == 1

\* quiz_id = str(uuid.uuid4()): an id no stored quiz has
NewQuizId(storage) == Len(storage) + 1

\* quiz_storage[quiz_id] = {...}
StoreQuiz(storage, quiz_id, quiz) ==
    IF quiz_id \in DOMAIN storage THEN [storage EXCEPT ![quiz_id] = quiz]
    ELSE Append(storage, quiz)

\* The handler run on a valid request: the state change and the response.
QuizRequested(counts, search, outcome, max_quizzes) ==
    LET r == GenerateQuizHandler(search, outcome)
        quiz_id == NewQuizId(quiz_storage)
    IN  /\ r.stored => Len(quiz_storage) < max_quizzes
        /\ quiz_storage' =
              IF r.stored
              THEN StoreQuiz(quiz_storage, quiz_id,
                             [questions |-> r.questions, topic_name |-> RequestTopic])
              ELSE quiz_storage
        /\ last' = [op |-> "generate_quiz", status |-> r.code,
                    counts |-> counts, searched |-> TRUE,
                    search |-> search,
                    llm |-> outcome.kind,
                    quiz_id |-> IF r.exc = "none" THEN quiz_id ELSE 0,
                    questions |-> r.questions,
                    total_questions |-> Len(r.questions)]
        /\ UNCHANGED <<evaluation_storage, ret, ing, chat, app, pending, tag, book>>

GenerateQuiz ==
    \E counts \in QuizCounts, class_level \in RequestClasses :
        IF ~QuizRequestValid(counts)
        THEN /\ last' = [op |-> "generate_quiz", status |-> 422, counts |-> counts,
                         searched |-> FALSE,
                         search |-> [raised |-> FALSE, chunks |-> <<>>],
                         llm |-> NotCalled.kind, quiz_id |-> 0,
                         questions |-> <<>>, total_questions |-> 0]
             /\ UNCHANGED <<quiz_storage, evaluation_storage, ret, ing, chat, app, pending, tag, book>>
        ELSE \E search \in SearchOutcomes(RequestTopic, class_level, QuizTopK) :
             \E outcome \in (IF ReachesModel(search) THEN QuizOutcomes ELSE {NotCalled}) :
                QuizRequested(counts, search, outcome, MaxQuizzes)

\* get_quiz: no try block, the 404 reaches the caller.
QuizLookedUp(quiz_id) ==
    /\ last' = IF quiz_id \notin DOMAIN quiz_storage
               THEN [op |-> "get_quiz", status |-> 404, quiz_id |-> quiz_id,
                     questions |-> <<>>, total_questions |-> 0]
               ELSE [op |-> "get_quiz", status |-> 200, quiz_id |-> quiz_id,
                     questions |-> quiz_storage[quiz_id].questions,
                     total_questions |-> Len(quiz_storage[quiz_id].questions)]
    /\ UNCHANGED <<quiz_storage, evaluation_storage, ret, ing, chat, app, pending, tag, book>>

GetQuiz == \E quiz_id \in 0..MaxQuizzes : QuizLookedUp(quiz_id)

(***************************************************************************)
(* What the generative model may answer to the evaluation prompt.          *)
(***************************************************************************)
I(n) == [t |-> "int", v |-> n]
IMissing == [t |-> "missing", v |-> 0]
INull == [t |-> "null", v |-> 0]

EvalObject(total, correct, score, results, feedback) ==
    [kind |-> "object", total_questions |-> total, correct_count |-> correct,
     score_percentage |-> score, question_results |-> results,
     topics_to_review |-> LMissing, overall_feedback |-> feedback,
     quiz_id |-> SMissing, feedback |-> SMissing]

\* 3 of 5 correct, 60 percent
EvGood == EvalObject(I(5), I(3), I(60), L(<<TRUE, TRUE, TRUE, FALSE, FALSE>>), S("Well done"))
\* more correct answers than questions
EvOverCount == EvalObject(I(2), I(3), I(150), L(<<TRUE, TRUE>>), S("Great"))
\* {}
EvBare == EvalObject(IMissing, IMissing, IMissing, LMissing, SMissing)
\* "correct_count": null
EvNullCount == EvalObject(I(2), INull, I(50), L(<<TRUE, FALSE>>), S("Fair"))
\* an object that also has the keys "quiz_id", "feedback", "topics_to_review"
EvResponseKeys ==
    [EvalObject(I(1), I(1), I(100), L(<<TRUE>>), SMissing)
        EXCEPT !.quiz_id = S("1"), !.feedback = S("Good"), !.topics_to_review = L(<<>>)]

EvalOther(kind) == [EvBare EXCEPT !.kind = kind]

EvalOutcomes ==
    {EvalOther("raise"), EvalOther("text"), EvalOther("array"),
     EvGood, EvOverCount, EvBare, EvNullCount, EvResponseKeys}

EvalNotCalled == EvalOther("not_called")

(***************************************************************************)
(* LLMService.evaluate_answers                                             *)
(***************************************************************************)
FallbackFeedback == "Evaluation completed. Please review your answers."

FallbackEvaluation_Empty(quiz_questions, topic_name) ==
    [kind |-> "object", total_questions |-> I(0), correct_count |-> I(0),
     score_percentage |-> I(0), question_results |-> L(<<>>),
     topics_to_review |-> L(<<topic_name>>), overall_feedback |-> S(""),
     quiz_id |-> SMissing, feedback |-> SMissing]

\* The value returned in except json.JSONDecodeError.
FallbackEvaluation(quiz_questions, topic_name) ==
    [kind |-> "object", total_questions |-> I(Len(quiz_questions)),
     correct_count |-> I(0), score_percentage |-> I(0),
     question_results |-> L(<<>>), topics_to_review |-> L(<<topic_name>>),
     overall_feedback |-> S(FallbackFeedback),
     quiz_id |-> SMissing, feedback |-> SMissing]

\* answers is the kind of student_answers ("object" for a dict): the loop
\* over the questions calls student_answers.get.
EvaluateAnswers(quiz_questions, answers, topic_name, outcome) ==
    IF Len(quiz_questions) > 0 /\ answers /= "object"
    THEN [exc |-> "AttributeError", called |-> FALSE, evaluation |-> EvalNotCalled]
    ELSE IF outcome.kind = "raise"
    THEN [exc |-> "Exception", called |-> TRUE, evaluation |-> EvalNotCalled]
    ELSE IF outcome.kind = "text"
    THEN [exc |-> "none", called |-> TRUE,
          evaluation |-> FallbackEvaluation(quiz_questions, topic_name)]
    ELSE [exc |-> "none", called |-> TRUE, evaluation |-> outcome]

(***************************************************************************)
(* routers/evaluation.py                                                   *)
(***************************************************************************)
\* answers form field: a JSON object, a JSON array, or text that is not JSON
AnswerForms == {"object", "array", "invalid"}
\* file form field: absent, a file with a name, a file with an empty name
FileForms == {"none", "named", "unnamed"}

\* json.loads(answers), {} on json.JSONDecodeError
ParseAnswers(answers) == IF answers = "invalid" THEN "object" ELSE answers

NoResponse == [total_questions |-> 0, correct_count |-> 0, score_percentage |-> 0,
               feedback |-> ""]

\* EvaluationResponse(...) built from the evaluation: the values of its
\* fields, and whether pydantic accepts them.
EvaluationResponseArgs(evaluation) ==
    [total_questions |-> Get(evaluation.total_questions,
                             I(Len(Get(evaluation.question_results, L(<<>>)).v))),
     correct_count |-> Get(evaluation.correct_count, I(0)),
     score_percentage |-> Get(evaluation.score_percentage, I(0)),
     topics_to_review |-> Get(evaluation.topics_to_review, L(<<>>)),
     feedback |-> Get(evaluation.overall_feedback, S(""))]

EvaluationResponseValid(args) ==
    /\ args.total_questions.t = "int"
    /\ args.correct_count.t = "int"
    /\ args.score_percentage.t = "int"
    /\ args.topics_to_review.t = "list"
    /\ args.feedback.t = "str"

\* From the evaluation on: format the results, store, build the response.
StoreAndRespond(evaluation) ==
    LET args == EvaluationResponseArgs(evaluation)
        failed(exc, stored) == [exc |-> exc, code |-> 0, stored |-> stored,
                                called |-> TRUE, evaluation |-> evaluation,
                                response |-> NoResponse]
    IN  IF evaluation.kind /= "object" THEN failed("AttributeError", FALSE)
        ELSE IF Get(evaluation.question_results, L(<<>>)).t /= "list"
        THEN failed("TypeError", FALSE)
        ELSE IF ~EvaluationResponseValid(args) THEN failed("ValidationError", TRUE)
        ELSE [exc |-> "none", code |-> 200, stored |-> TRUE, called |-> TRUE,
              evaluation |-> evaluation,
              response |-> [total_questions |-> args.total_questions.v,
                            correct_count |-> args.correct_count.v,
                            score_percentage |-> args.score_percentage.v,
                            feedback |-> args.feedback.v]]

EvalFailed(exc, code, called) ==
    [exc |-> exc, code |-> code, stored |-> FALSE, called |-> called,
     evaluation |-> EvalNotCalled, response |-> NoResponse]

\* The try block of evaluate_answers_multipart.  extracted_text is assigned
\* only inside "if file and file.filename".
EvaluateMultipartBody(storage, quiz_id, answers, file, outcome) ==
    IF quiz_id \notin DOMAIN storage THEN EvalFailed("HTTPException", 404, FALSE)
    ELSE IF file /= "named" THEN EvalFailed("UnboundLocalError", 0, FALSE)
    ELSE LET e == EvaluateAnswers(storage[quiz_id].questions, ParseAnswers(answers),
                                  storage[quiz_id].topic_name, outcome)
         IN  IF e.exc /= "none" THEN EvalFailed(e.exc, 0, e.called)
             ELSE StoreAndRespond(e.evaluation)

\* except HTTPException: raise
\* except Exception as e: raise HTTPException(status_code=500, ...)
ExceptHTTPExceptionRaise(body) ==
    IF body.exc \in {"none", "HTTPException"} THEN body
    ELSE [body EXCEPT !.exc = "HTTPException", !.code = 500]

EvaluateMultipartHandler(storage, quiz_id, answers, file, outcome) ==
    ExceptHTTPExceptionRaise(EvaluateMultipartBody(storage, quiz_id, answers, file, outcome))

\* The try block of evaluate_answers_json: evaluate_answers is called
\* without its required argument extracted_text, a TypeError.
EvaluateJsonBody(storage, quiz_id) ==
    IF quiz_id \notin DOMAIN storage THEN EvalFailed("HTTPException", 404, FALSE)
    ELSE EvalFailed("TypeError", 0, FALSE)

EvaluateJsonHandler(storage, quiz_id) == ExceptException(EvaluateJsonBody(storage, quiz_id))

\* The state change and the response of an evaluate endpoint.
Evaluated(op, quiz_id, answers, file, outcome, r) ==
    /\ r.stored => Len(evaluation_storage) < MaxEvals
    /\ evaluation_storage' =
          IF r.stored THEN Append(evaluation_storage, r.evaluation)
          ELSE evaluation_storage
    /\ last' = [op |-> op, status |-> r.code, quiz_id |-> quiz_id,
                answers |-> answers, file |-> file,
                llm |-> IF r.called THEN outcome.kind ELSE EvalNotCalled.kind,
                evaluation_id |-> IF r.stored THEN Len(evaluation_storage) + 1 ELSE 0,
                response |-> r.response]
    /\ UNCHANGED <<quiz_storage, ret, ing, chat, app, tag, book>>

\* Whether the multipart handler reaches the completion call.
EvalReachesModel(storage, quiz_id, answers, file) ==
    /\ quiz_id \in DOMAIN storage
    /\ file = "named"
    /\ Len(storage[quiz_id].questions) > 0 => ParseAnswers(answers) = "object"

EvaluateMultipart ==
    \E quiz_id \in 0..MaxQuizzes, file \in FileForms :
    \E answers \in (IF quiz_id \in DOMAIN quiz_storage /\ file = "named"
                    THEN AnswerForms ELSE {"object"}) :
    \E outcome \in (IF EvalReachesModel(quiz_storage, quiz_id, answers, file)
                    THEN EvalOutcomes ELSE {EvalNotCalled}) :
        /\ Evaluated("evaluate", quiz_id, answers, file, outcome,
                     EvaluateMultipartHandler(quiz_storage, quiz_id, answers, file, outcome))
        /\ UNCHANGED pending

\* EvaluationRequest.answers is a Dict[str, str]: always a JSON object.
EvaluateJson ==
    \E quiz_id \in 0..MaxQuizzes :
        /\ Evaluated("evaluate_json", quiz_id, "object", "none", EvalNotCalled,
                     EvaluateJsonHandler(quiz_storage, quiz_id))
        /\ UNCHANGED pending

\* EvaluationResponse(**evaluation): every field of the response model is
\* required, and the keys of the stored dict are the only arguments.
StoredEvaluationValid(evaluation) ==
    /\ evaluation.quiz_id.t = "str"
    /\ evaluation.total_questions.t = "int"
    /\ evaluation.correct_count.t = "int"
    /\ evaluation.score_percentage.t = "int"
    /\ evaluation.question_results.t = "list"
    /\ evaluation.topics_to_review.t = "list"
    /\ evaluation.feedback.t = "str"

\* get_evaluation without the test of "evaluation_id not in evaluation_storage"
GetEvaluationStatus_NoCheck(storage, evaluation_id) ==
    IF evaluation_id \in DOMAIN storage /\ StoredEvaluationValid(storage[evaluation_id])
    THEN 200
    ELSE 500

\* get_evaluation: the stored evaluation is the model's object, or the
\* fallback.  A ValidationError is caught by nothing in the handler and is
\* answered 500 by the application's exception handler.
GetEvaluationStatus(storage, evaluation_id) ==
    IF evaluation_id \notin DOMAIN storage THEN 404
    ELSE IF StoredEvaluationValid(storage[evaluation_id]) THEN 200
    ELSE 500

GetEvaluation ==
    \E evaluation_id \in 0..MaxEvals :
        /\ last' = [op |-> "get_evaluation",
                    status |-> GetEvaluationStatus(evaluation_storage, evaluation_id),
                    evaluation_id |-> evaluation_id]
        /\ UNCHANGED <<quiz_storage, evaluation_storage, ret, ing, chat, app, pending, tag, book>>

(***************************************************************************)
(* The quiz and evaluation endpoints under interleaving.  Every handler is *)
(* an async def that runs on one event loop: it gives up control only at   *)
(* an await.  The one await in these handlers is "await file.read()" of    *)
(* evaluate_answers_multipart, reached after quiz_data has been read from  *)
(* quiz_storage; other requests run while the handler is suspended there.  *)
(***************************************************************************)
MaxStored == 2

NoPending == [active |-> FALSE, quiz_id |-> 0, answers |-> "object",
              quiz_data |-> [questions |-> <<>>, topic_name |-> ""]]

\* The answers of the completion call to the quiz prompt considered here.
ConcurrentQuizOutcomes ==
    {[kind |-> "raise", questions |-> LMissing]}
    \cup {[kind |-> "object", questions |-> L(qs)] :
            qs \in {<<QMcq("q1"), QFill("q2"), QShort("q3")>>, <<QBare, QBare>>}}

\* The answers of the completion call to the evaluation prompt considered here.
ConcurrentEvalOutcomes == {EvalOther("raise"), EvalOther("text"), EvGood}

ConcurrentGenerateQuiz ==
    \E search \in SearchOutcomes(RequestTopic, "Class IX", QuizTopK) :
    \E outcome \in (IF ReachesModel(search) THEN ConcurrentQuizOutcomes ELSE {NotCalled}) :
        QuizRequested(<<1, 1, 1>>, search, outcome, MaxStored)

ConcurrentGetQuiz == \E quiz_id \in 0..MaxStored : QuizLookedUp(quiz_id)

\* evaluate_answers_multipart with a named file, up to "await file.read()":
\* an unknown quiz is answered 404 at once, a known one leaves the handler
\* suspended with its quiz_data.
EvaluateBegin ==
    /\ ~pending.active
    /\ \E quiz_id \in 0..MaxStored :
          IF quiz_id \notin DOMAIN quiz_storage
          THEN /\ Evaluated("evaluate", quiz_id, "object", "named", EvalNotCalled,
                            EvaluateMultipartHandler(quiz_storage, quiz_id, "object",
                                                     "named", EvalNotCalled))
               /\ UNCHANGED pending
          ELSE /\ pending' = [active |-> TRUE, quiz_id |-> quiz_id, answers |-> "object",
                              quiz_data |-> quiz_storage[quiz_id]]
               /\ UNCHANGED <<quiz_storage, evaluation_storage, last, ret, ing, chat,
                              app, tag, book>>

\* The rest of the handler, from the return of file.read() on: it works on
\* the quiz_data it read before the await.
EvaluateResume ==
    /\ pending.active
    /\ \E outcome \in ConcurrentEvalOutcomes :
          Evaluated("evaluate", pending.quiz_id, pending.answers, "named", outcome,
                    EvaluateMultipartHandler(pending.quiz_id :> pending.quiz_data,
                                             pending.quiz_id, pending.answers,
                                             "named", outcome))
    /\ pending' = NoPending

(***************************************************************************)
(* LLMService.generate_summary and routers/summary.py.  The model's answer *)
(* is a list of lines; a marker stands on a line of its own.               *)
(***************************************************************************)
SummaryTopK == 10
MaxKeyPoints == 5

SummaryMarker == "SUMMARY:"
KeyPointsMarker == "KEY POINTS:"
\* lines for which startswith(("1.", "2.", "3.", "4.", "5.", "-")) holds
EnumeratedLines == {"1. Refraction", "2. Reflection", "- Lenses", "- Mirrors",
                    "- Prisms", "- Rays"}

SummaryContents ==
    { <<"Light bends.">>,
      <<"Summary:", "Light bends.", "KeyPoints:", "* Refraction">>,
      <<SummaryMarker, "Light bends.", KeyPointsMarker, "1. Refraction", "",
        "* Reflection", "- Lenses">>,
      <<SummaryMarker, "Light bends.", KeyPointsMarker, "1. Refraction",
        "2. Reflection", "- Lenses", "- Mirrors", "- Prisms", "- Rays">>,
      <<SummaryMarker, KeyPointsMarker, "- Lenses">>,
      <<"", "Light bends.", KeyPointsMarker, "- Lenses">>,
      <<SummaryMarker, "Light bends.">> }

RECURSIVE KeepLines(_, _)
KeepLines(lines, keep) ==
    IF lines = <<>> THEN <<>>
    ELSE (IF Head(lines) \in keep THEN <<Head(lines)>> ELSE <<>>)
         \o KeepLines(Tail(lines), keep)

\* text.replace("SUMMARY:", ""): a marker line becomes an empty line
RemoveSummaryMarker(lines) ==
    [i \in 1..Len(lines) |-> IF lines[i] = SummaryMarker THEN "" ELSE lines[i]]

\* text.strip(): the empty lines at both ends go
RECURSIVE Strip(_)
Strip(lines) ==
    IF lines = <<>> THEN <<>>
    ELSE IF Head(lines) = "" THEN Strip(Tail(lines))
    ELSE IF lines[Len(lines)] = "" THEN Strip(SubSeq(lines, 1, Len(lines) - 1))
    ELSE lines

\* content.split("KEY POINTS:")[n]
RECURSIVE SplitPart(_, _)
SplitPart(lines, n) ==
    LET at == {i \in 1..Len(lines) : lines[i] = KeyPointsMarker}
        first == CHOOSE i \in at : \A j \in at : i <= j
    IN  IF at = {} THEN (IF n = 0 THEN lines ELSE <<>>)
        ELSE IF n = 0 THEN SubSeq(lines, 1, first - 1)
        ELSE SplitPart(SubSeq(lines, first + 1, Len(lines)), n - 1)

\* the parse without the test of "SUMMARY:" in content
ParseSummary_AlwaysSplit(content) ==
    [summary |-> Strip(RemoveSummaryMarker(SplitPart(content, 0))),
     key_points |-> Take(KeepLines(SplitPart(content, 1), EnumeratedLines), MaxKeyPoints)]

ParseSummary(content) ==
    LET summary_text == Strip(RemoveSummaryMarker(SplitPart(content, 0)))
        key_points == KeepLines(SplitPart(content, 1), EnumeratedLines)
    IN  IF \E i \in 1..Len(content) : content[i] = SummaryMarker
        THEN [summary |-> IF summary_text /= <<>> THEN summary_text ELSE content,
              key_points |-> Take(key_points, MaxKeyPoints)]
        ELSE [summary |-> content, key_points |-> <<>>]

SummaryOutcomes ==
    {[kind |-> "raise", content |-> <<>>]}
    \cup {[kind |-> "text", content |-> c] : c \in SummaryContents}

SummaryNotCalled == [kind |-> "not_called", content |-> <<>>]

\* The try block of the summary handler.
GenerateSummaryBody(search, outcome) ==
    LET failed(exc, code) == [exc |-> exc, code |-> code,
                              data |-> [summary |-> <<>>, key_points |-> <<>>]]
    IN  IF search.raised THEN failed("Exception", 0)
        ELSE IF search.chunks = <<>> THEN failed("HTTPException", 404)
        ELSE IF outcome.kind = "raise" THEN failed("Exception", 0)
        ELSE [exc |-> "none", code |-> 200, data |-> ParseSummary(outcome.content)]

GenerateSummaryHandler(search, outcome) ==
    ExceptException(GenerateSummaryBody(search, outcome))

GenerateSummary ==
    \E class_level \in RequestClasses :
    \E search \in SearchOutcomes(RequestTopic, class_level, SummaryTopK) :
    \E outcome \in (IF ReachesModel(search) THEN SummaryOutcomes ELSE {SummaryNotCalled}) :
        LET r == GenerateSummaryHandler(search, outcome)
        IN  /\ last' = [op |-> "generate_summary", status |-> r.code,
                        searched |-> TRUE, search |-> search, llm |-> outcome.kind,
                        content |-> outcome.content,
                        summary |-> r.data.summary, key_points |-> r.data.key_points]
            /\ UNCHANGED <<quiz_storage, evaluation_storage, ret, ing, chat, app, pending, tag, book>>

NoRequest == [op |-> "none", status |-> 0]

(***************************************************************************)
(* ingestion.py: PDFIngestionPipeline.  A file of the books folder is its  *)
(* name; a page is its text and the number of chunks the semantic chunker  *)
(* makes of it; a record of the index is a chunk's id and metadata.        *)
(***************************************************************************)
MaxRuns == 2

\* batch_size=100 in process_book's call of _upsert_chunks_to_pinecone
BatchSize == 100

\* ---- Python's str, on the characters the file names and pages use ----
\* str.lower() of one character (the upper-case letters of the file names)
LowerChar(c) ==
    LET upper == <<"A", "C", "D", "F", "I", "L", "P", "S", "V", "X">>
        lower == <<"a", "c", "d", "f", "i", "l", "p", "s", "v", "x">>
    IN  IF \E i \in 1..Len(upper) : upper[i] = c
        THEN lower[CHOOSE i \in 1..Len(upper) : upper[i] = c]
        ELSE c

\* str.lower(), from the character at position i on
RECURSIVE LowerFrom(_, _)
LowerFrom(str, i) ==
    IF i > Len(str) THEN ""
    ELSE LowerChar(SubSeq(str, i, i)) \o LowerFrom(str, i + 1)

\* str.lower()
StrLower(str) == LowerFrom(str, 1)

\* sub in str
Contains(sub, str) ==
    \E i \in 1..(Len(str) - Len(sub) + 1) : SubSeq(str, i, i + Len(sub) - 1) = sub

\* str.strip(): the text between the first and the last character that is
\* not white space
StrStrip(str) ==
    LET whitespace == {" ", "\t", "\n"}
        inked == {i \in 1..Len(str) : SubSeq(str, i, i) \notin whitespace}
    IN  IF inked = {} THEN ""
        ELSE SubSeq(str, CHOOSE i \in inked : \A j \in inked : i <= j,
                         CHOOSE i \in inked : \A j \in inked : i >= j)

\* the if chain without filename.lower()
ExtractClassFromFilename_CaseSensitive(filename) ==
    IF Contains("class8", filename) \/ Contains("classviii", filename)
    THEN "Class VIII"
    ELSE IF Contains("class9", filename) \/ Contains("classix", filename)
    THEN "Class IX"
    ELSE IF Contains("class10", filename) \/ Contains("classx", filename)
    THEN "Class X"
    ELSE "Unknown"

\* extract_class_from_filename
ExtractClassFromFilename(filename) ==
    LET filename_lower == StrLower(filename)
    IN  IF Contains("class8", filename_lower) \/ Contains("classviii", filename_lower)
        THEN "Class VIII"
        ELSE IF Contains("class9", filename_lower) \/ Contains("classix", filename_lower)
        THEN "Class IX"
        ELSE IF Contains("class10", filename_lower) \/ Contains("classx", filename_lower)
        THEN "Class X"
        ELSE "Unknown"

\* The file names extract_class_from_filename is called with: a prefix, a
\* stem and an ending.
Filenames ==
    LET prefixes == {"", "ncert_", "Science-"}
        stems ==
            {"class8", "Class8", "CLASS8", "classviii", "ClassVIII", "CLASSVIII",
             "class9", "Class9", "classix", "ClassIX", "CLASSIX",
             "class10", "Class10", "classx", "ClassX", "CLASSX", "classxi", "classxii",
             "class8class9", "class9class8", "classxclass9", "classixclass8",
             "class10classviii",
             "class", "class_8", "class 9", "class-10", "class1", "class7", "class 10",
             "lass8", "viii", "ix", "x", "8", "science", "", "clasS", "class 8 class9"}
        endings == {".pdf", ".PDF", "_science.pdf"}
    IN  {prefix \o stem \o ending :
            prefix \in prefixes, stem \in stems, ending \in endings}

NoTag == [filename |-> "", class |-> NoneStr, called |-> FALSE]

\* a call of extract_class_from_filename on the file name at hand
ExtractClass ==
    /\ tag' = [filename |-> tag.filename,
               class |-> ExtractClassFromFilename(tag.filename),
               called |-> TRUE]
    /\ UNCHANGED <<quiz_storage, evaluation_storage, last, ret, ing, chat, app, pending, book>>

Page(text, chunks) == [text |-> text, chunks |-> chunks]

Files == {"Class8.PDF", "class10.pdf", "class9.pdf", "notes.txt"}

\* f.lower().endswith('.pdf')
IsPdf(f) == f \in {"Class8.PDF", "class10.pdf", "class9.pdf"}

\* the position of a name in the order of Python's str comparison
\* ("C" < "c", "1" < "9")
FileRank(f) ==
    CASE f = "Class8.PDF" -> 1
      [] f = "class10.pdf" -> 2
      [] f = "class9.pdf" -> 3
      [] f = "notes.txt" -> 4

\* sorted(pdf_files)
RECURSIVE SortedFiles(_)
SortedFiles(fs) ==
    IF fs = {} THEN <<>>
    ELSE LET first == CHOOSE f \in fs : \A g \in fs : FileRank(f) <= FileRank(g)
         IN  <<first>> \o SortedFiles(fs \ {first})

\* the pdf_files list of ingest_all_books
PdfFiles(books_folder) == {f \in books_folder : IsPdf(f)}

\* loader.load(): the pages of each book
BookPages(f) ==
    CASE f = "Class8.PDF" -> <<>>
      [] f = "class10.pdf" -> <<Page("t", 1)>>
      [] f = "class9.pdf" -> <<Page("t", 60), Page("", 0), Page(" \n", 0), Page("t", 41)>>
      [] OTHER -> <<>>

\* the test that lets only pages with an empty text through
IsEmptyPage_OnlyEmpty(page) == page.text = ""

\* if not text or not text.strip(): continue
IsEmptyPage(page) == page.text = "" \/ StrStrip(page.text) = ""

\* A local variable of a method: assigned once, then read.  Body is what
\* the method goes on to compute with the variable.
Local(value, Body(_)) == CHOOSE result \in {Body(v) : v \in {value}} : TRUE

\* str(uuid.uuid4()): ids no record of the index has
MaxId(index) ==
    Local({r.id : r \in index},
          LAMBDA ids : IF ids = {} THEN 0
                       ELSE CHOOSE m \in ids : (m + 1) \notin ids /\ \A id \in ids : id <= m)

\* chunk.page_content: the text of part number chunk_idx of a page
ChunkText(page_number, chunk_idx) == [page |-> page_number, part |-> chunk_idx]

\* the chunks of one page, with their metadata (the constant entries
\* "subject" and "language" and the "datetime" are left out)
PageChunks(filename, class_name, page_number, n, first_id) ==
    [i \in 1..n |->
        [id |-> first_id + i - 1,
         text |-> ChunkText(page_number, i - 1),
         metadata |-> [class |-> class_name,
                       page_number |-> page_number,
                       chunk_text |-> ChunkText(page_number, i - 1),
                       chunk_id |-> first_id + i - 1,
                       source_file |-> filename,
                       chunk_index |-> i - 1]]]

NoFailure == [at |-> "none", batch |-> 0, page |-> 0]

\* process_book's loop over pages_data, from page number p on: the chunks
\* made, the pages given to chunk_text_semantic, whether that call raised
RECURSIVE ChunkPages(_, _, _, _, _, _)
ChunkPages(filename, class_name, pages, p, first_id, failure) ==
    IF p > Len(pages) THEN [raised |-> FALSE, chunks |-> <<>>, chunked |-> <<>>]
    ELSE IF IsEmptyPage(pages[p])
    THEN ChunkPages(filename, class_name, pages, p + 1, first_id, failure)
    ELSE IF failure.at = "chunk" /\ failure.page = p
    THEN [raised |-> TRUE, chunks |-> <<>>, chunked |-> <<p>>]
    ELSE Local(ChunkPages(filename, class_name, pages, p + 1,
                          first_id + pages[p].chunks, failure),
               LAMBDA rest :
                   [raised |-> rest.raised,
                    chunks |-> PageChunks(filename, class_name, p, pages[p].chunks, first_id)
                               \o rest.chunks,
                    chunked |-> <<p>> \o rest.chunked])

\* all_chunks of a process_book call in which no call raises
AllChunks(filename, pages, p, first_id) ==
    Local(ExtractClassFromFilename(filename), LAMBDA class_name :
        ChunkPages(filename, class_name, pages, p, first_id, NoFailure).chunks)

\* embeddings_list[i]: the embedding of texts[i]
Embedding(text) == [of |-> text]

\* vectors_to_upsert
Vectors(chunks) ==
    [i \in 1..Len(chunks) |-> [id |-> chunks[i].id,
                               values |-> Embedding(chunks[i].text),
                               metadata |-> chunks[i].metadata]]

\* total_batches computed with len(vectors_to_upsert) // batch_size
TotalBatches_Floor(n, batch_size) == n \div batch_size

\* total_batches = (len(vectors_to_upsert) + batch_size - 1) // batch_size
TotalBatches(n, batch_size) == (n + batch_size - 1) \div batch_size

\* batch = vectors_to_upsert[start_idx:end_idx], batch_num counted from 0
Batch(vectors, batch_num, batch_size) ==
    LET start_idx == batch_num * batch_size
        end_idx == Min(start_idx + batch_size, Len(vectors))
    IN  SubSeq(vectors, start_idx + 1, end_idx)

\* an upsert that leaves only the records of the batch in the index
IndexUpsert_Replace(index, batch) == {batch[i] : i \in 1..Len(batch)}

\* self.index.upsert(vectors=batch): a record replaces the one of its id
IndexUpsert(index, batch) ==
    Local({batch[i].id : i \in 1..Len(batch)},
          LAMBDA ids : {r \in index : r.id \notin ids} \cup {batch[i] : i \in 1..Len(batch)})

RECURSIVE Sum(_)
Sum(s) == IF s = <<>> THEN 0 ELSE Head(s) + Sum(Tail(s))

\* the numbers of the pages process_book gives to chunk_text_semantic
ChunkedPages(filename) ==
    SelectSeq([p \in 1..Len(BookPages(filename)) |-> p],
              LAMBDA p : ~IsEmptyPage(BookPages(filename)[p]))

\* the number of chunks process_book makes of a book
ChunkCount(filename) ==
    Sum([i \in 1..Len(ChunkedPages(filename)) |->
            BookPages(filename)[ChunkedPages(filename)[i]].chunks])

\* Where a process_book call may fail, in the order the call comes to
\* them: loading the PDF, chunking a page that is given to the chunker,
\* embedding the texts, upserting batch number k (from 1).  The last entry
\* is the call in which nothing fails.
Failures(filename) ==
    <<[NoFailure EXCEPT !.at = "load"]>>
    \o [i \in 1..Len(ChunkedPages(filename)) |->
           [NoFailure EXCEPT !.at = "chunk", !.page = ChunkedPages(filename)[i]]]
    \o <<[NoFailure EXCEPT !.at = "embed"]>>
    \o [k \in 1..TotalBatches(ChunkCount(filename), BatchSize) |->
           [NoFailure EXCEPT !.at = "upsert", !.batch = k]]
    \o <<NoFailure>>

\* the loop over the batches of _upsert_chunks_to_pinecone, from batch_num
\* on: the index after it, the sizes of the batches upserted and their ids
RECURSIVE UpsertBatches(_, _, _, _, _)
UpsertBatches(index, vectors, batch_num, batch_size, failure) ==
    IF batch_num >= TotalBatches(Len(vectors), batch_size)
    THEN [raised |-> FALSE, index |-> index, calls |-> <<>>, batches |-> <<>>]
    ELSE IF failure.at = "upsert" /\ failure.batch = batch_num + 1
    THEN [raised |-> TRUE, index |-> index, calls |-> <<>>, batches |-> <<>>]
    ELSE Local(Batch(vectors, batch_num, batch_size),
               LAMBDA batch :
                   Local(UpsertBatches(IndexUpsert(index, batch), vectors,
                                       batch_num + 1, batch_size, failure),
                         LAMBDA rest :
                             [rest EXCEPT !.calls = <<Len(batch)>> \o rest.calls,
                                          !.batches = <<[i \in 1..Len(batch) |-> batch[i].id]>>
                                                      \o rest.batches]))

\* _upsert_chunks_to_pinecone
UpsertChunksToPinecone(index, chunks, batch_size, failure) ==
    IF failure.at = "embed"
    THEN [raised |-> TRUE, index |-> index, calls |-> <<>>, batches |-> <<>>]
    ELSE Local(Vectors(chunks),
               LAMBDA vectors_to_upsert :
                   UpsertBatches(index, vectors_to_upsert, 0, batch_size, failure))

\* process_book: what it returns or that it raised, the index after it, the
\* batches it upserted and the pages it gave to the chunker
ProcessBook(index, filename, failure) ==
    IF failure.at = "load"
    THEN [raised |-> TRUE, total_chunks |-> 0, index |-> index, calls |-> <<>>,
          batches |-> <<>>, chunked |-> <<>>]
    ELSE
    Local(ExtractClassFromFilename(filename), LAMBDA class_name :
    Local(MaxId(index) + 1, LAMBDA first_id :
    Local(ChunkPages(filename, class_name, BookPages(filename), 1, first_id, failure),
          LAMBDA paged :
        IF paged.raised
        THEN [raised |-> TRUE, total_chunks |-> 0, index |-> index, calls |-> <<>>,
              batches |-> <<>>, chunked |-> paged.chunked]
        ELSE
        Local(UpsertChunksToPinecone(index, paged.chunks, BatchSize, failure),
              LAMBDA up :
            [raised |-> up.raised,
             total_chunks |-> IF up.raised THEN 0 ELSE Len(paged.chunks),
             index |-> up.index, calls |-> up.calls,
             batches |-> up.batches, chunked |-> paged.chunked]))))

\* except Exception as e: ...; continue -- the loop goes on with the next file
AfterBookError_Abort(todo) == <<>>

AfterBookError(todo) == Tail(todo)

\* the process_book call made last: the file, the first id it drew, where
\* it failed, the pages it gave to the chunker, the ids of its batches
NoBook == [name |-> "", first_id |-> 0, failure |-> NoFailure]

Idle(books_folder) ==
    [books_folder |-> books_folder, index |-> {}, pc |-> "idle", todo |-> <<>>,
     attempted |-> <<>>, failed |-> <<>>, total_chunks |-> 0, upserted |-> 0,
     calls |-> <<>>, runs |-> <<>>, chunked |-> <<>>, batches |-> <<>>]

\* ingest_all_books up to the loop: list the folder, return when it has no PDF
StartIngest ==
    /\ ing.pc \in {"idle", "done"}
    /\ Len(ing.runs) < MaxRuns
    /\ LET pdf_files == PdfFiles(ing.books_folder)
           begun == [ing EXCEPT !.attempted = <<>>, !.failed = <<>>,
                                !.total_chunks = 0, !.upserted = 0, !.calls = <<>>,
                                !.chunked = <<>>, !.batches = <<>>]
       IN  ing' = IF pdf_files = {}
                  THEN [begun EXCEPT !.pc = "done",
                                     !.runs = Append(@, [records |-> Cardinality(ing.index),
                                                         failed |-> <<>>, reported |-> FALSE])]
                  ELSE [begun EXCEPT !.pc = "running", !.todo = SortedFiles(pdf_files)]
    /\ book' = NoBook
    /\ UNCHANGED <<quiz_storage, evaluation_storage, last, ret, chat, app, pending, tag>>

\* one iteration of "for pdf_file in sorted(pdf_files)": try process_book
IngestBook ==
    /\ ing.pc = "running"
    /\ ing.todo /= <<>>
    /\ LET pdf_file == Head(ing.todo)
       IN  \E failures \in {Failures(pdf_file)} :
           \E i \in 1..Len(failures) : \E failure \in {failures[i]} :
               /\ book' = [name |-> pdf_file, first_id |-> MaxId(ing.index) + 1,
                           failure |-> failure]
               /\ \E r \in {ProcessBook(ing.index, pdf_file, failure)} :
                      ing' = [ing EXCEPT
                                 !.index = r.index,
                                 !.attempted = Append(@, pdf_file),
                                 !.failed = IF r.raised THEN Append(@, pdf_file) ELSE @,
                                 !.total_chunks = @ + r.total_chunks,
                                 !.upserted = @ + Sum(r.calls),
                                 !.calls = r.calls,
                                 !.todo = IF r.raised THEN AfterBookError(@) ELSE Tail(@),
                                 !.chunked = r.chunked,
                                 !.batches = r.batches]
    /\ UNCHANGED <<quiz_storage, evaluation_storage, last, ret, chat, app, pending, tag>>

\* after the loop: "Ingestion Complete!", the total is reported
IngestComplete ==
    /\ ing.pc = "running"
    /\ ing.todo = <<>>
    /\ ing' = [ing EXCEPT !.pc = "done",
                          !.runs = Append(@, [records |-> Cardinality(ing.index),
                                              failed |-> ing.failed, reported |-> TRUE])]
    /\ UNCHANGED <<quiz_storage, evaluation_storage, last, ret, chat, app, pending, tag, book>>

(***************************************************************************)
(* LLMService.chat_with_context and routers/chat.py.  The body of          *)
(* chat_with_context contains a yield: a call of it makes a generator and  *)
(* runs nothing of the body; the body runs when the generator is iterated. *)
(***************************************************************************)
MaxFragments == 3

\* top_k=5 of both retriever calls of the chat handlers
ChatTopK == 5
\* top_k=3 of the non-streaming handler's search_by_topic
ChatFallbackTopK == 3
\* context_chunks[:3]
MaxSources == 3

DefaultClass == "Class VIII"

\* chunk.choices[0].delta.content of the chunks of a streamed completion
Fragments == {NoneStr, "", "Li", "ght"}

\* request.messages, by the roles of the messages
MessageLists == {<<>>, <<"assistant">>, <<"user">>, <<"user", "assistant", "user">>}

\* user_messages = [msg for msg in request.messages if msg.role == "user"]
RECURSIVE UserMessages(_)
UserMessages(messages) ==
    IF messages = <<>> THEN <<>>
    ELSE (IF Head(messages) = "user" THEN <<Head(messages)>> ELSE <<>>)
         \o UserMessages(Tail(messages))

\* what the store may answer to a chat handler's query
ChatStoreAnswers(class_level) ==
    LET c == IF Truthy(class_level) THEN class_level ELSE "Class IX"
        m(score) == [score |-> score, class |-> c]
    IN  {<<>>, <<m(24)>>, <<m(90)>>, <<m(90), m(90), m(25), m(25), m(24)>>}

\* one retriever call of a handler, with every outcome of it
ChatSearches(topic_name, class_level, top_k) ==
    {GetRelevantChunks(<<"what", "is", "it">>, topic_name, class_level, top_k,
                       ok[1], ok[2], IF ok[1] /\ ok[2] THEN matches ELSE <<>>) :
        ok \in {<<TRUE, TRUE>>, <<FALSE, TRUE>>, <<TRUE, FALSE>>},
        matches \in ChatStoreAnswers(class_level)}

\* class_level = request.class_level if request.class_level else "Class VIII"
StreamClassLevel(class_level) == IF Truthy(class_level) THEN class_level ELSE DefaultClass

\* the sources list built from context_chunks[:3]
Sources(context_chunks) ==
    [i \in 1..Min(MaxSources, Len(context_chunks)) |-> [class |-> context_chunks[i].class]]

ChunkEvent(chunk) ==
    [type |-> "chunk", chunk |-> chunk, full_response |-> "", sources |-> <<>>]
DoneEvent(full_response, sources) ==
    [type |-> "done", chunk |-> "", full_response |-> full_response, sources |-> sources]
ErrorEvent ==
    [type |-> "error", chunk |-> "", full_response |-> "", sources |-> <<>>]

\* if chunk.choices[0].delta.content is not None: yield it
Yielded(fragment) == fragment /= NoneStr

\* full_response += chunk
Accumulate_Last(full_response, chunk) == chunk

Accumulate(full_response, chunk) == full_response \o chunk

\* messages is request.messages; raised tells that the except clause of
\* generate_stream has run
NoStream ==
    [pc |-> "idle", events |-> <<>>, full_response |-> "", context_chunks |-> <<>>,
     emitted |-> <<>>, searches |-> 0, called |-> FALSE, messages |-> <<>>,
     raised |-> FALSE]

Closed(events, searches) ==
    [NoStream EXCEPT !.pc = "closed", !.events = events, !.searches = searches]

\* generate_stream up to the for loop over chat_with_context(..., stream=True)
ChatStreamOpen ==
    /\ chat.pc = "idle"
    /\ \E messages \in MessageLists, class_level \in {NoneStr, "Class IX"} :
       LET class == StreamClassLevel(class_level)
       IN  \E first \in ChatSearches(RequestTopic, class, ChatTopK) :
           \E second \in (IF ~first.raised /\ first.chunks = <<>>
                          THEN ChatSearches(RequestTopic, class, ChatTopK)
                          ELSE {first}) :
               LET opened ==
                       IF UserMessages(messages) = <<>> THEN Closed(<<ErrorEvent>>, 0)
                       ELSE IF first.raised
                       THEN [Closed(<<ErrorEvent>>, 1) EXCEPT !.raised = TRUE]
                       ELSE IF first.chunks /= <<>>
                       THEN [NoStream EXCEPT !.pc = "streaming", !.searches = 1,
                                             !.context_chunks = first.chunks]
                       ELSE IF second.raised
                       THEN [Closed(<<ErrorEvent>>, 2) EXCEPT !.raised = TRUE]
                       ELSE [NoStream EXCEPT !.pc = "streaming", !.searches = 2,
                                             !.context_chunks = second.chunks]
               IN  chat' = [opened EXCEPT !.messages = messages]
    /\ UNCHANGED <<quiz_storage, evaluation_storage, last, ret, ing, app, pending, tag, book>>

\* one chunk of the completion stream arrives: one turn of the two loops
StreamFragment ==
    /\ chat.pc = "streaming"
    /\ Len(chat.emitted) < MaxFragments
    /\ \E fragment \in Fragments :
        chat' = IF Yielded(fragment)
                THEN [chat EXCEPT !.called = TRUE,
                                  !.emitted = Append(@, fragment),
                                  !.full_response = Accumulate(@, fragment),
                                  !.events = Append(@, ChunkEvent(fragment))]
                ELSE [chat EXCEPT !.called = TRUE, !.emitted = Append(@, fragment)]
    /\ UNCHANGED <<quiz_storage, evaluation_storage, last, ret, ing, app, pending, tag, book>>

\* an except clause that ends the stream without an event
StreamRaise_Silent ==
    /\ chat.pc = "streaming"
    /\ chat' = [chat EXCEPT !.pc = "closed", !.called = TRUE, !.raised = TRUE]
    /\ UNCHANGED <<quiz_storage, evaluation_storage, last, ret, ing, app, pending, tag, book>>

\* the completion call or the stream raises: except Exception yields an error
StreamRaise ==
    /\ chat.pc = "streaming"
    /\ chat' = [chat EXCEPT !.pc = "closed", !.called = TRUE, !.raised = TRUE,
                            !.events = Append(@, ErrorEvent)]
    /\ UNCHANGED <<quiz_storage, evaluation_storage, last, ret, ing, app, pending, tag, book>>

\* the completion stream ends: the sources and the final event
StreamEnd ==
    /\ chat.pc = "streaming"
    /\ chat' = [chat EXCEPT !.pc = "closed", !.called = TRUE,
                            !.events = Append(@, DoneEvent(chat.full_response,
                                                           Sources(chat.context_chunks)))]
    /\ UNCHANGED <<quiz_storage, evaluation_storage, last, ret, ing, app, pending, tag, book>>

\* llm_service.chat_with_context(...) as the non-streaming handler calls it:
\* the value is a generator, and the completion call has not been made
ChatWithContextCall == [kind |-> "generator", called |-> FALSE]

\* ChatResponse(response=response_text, sources=sources): response is a str
ChatResponseValid(response_text) == response_text.kind = "str"

\* the try block of the non-streaming handler
ChatBody(messages, first, second) ==
    LET failed(exc, code, searches) ==
            [exc |-> exc, code |-> code, searches |-> searches, called |-> FALSE,
             sources |-> <<>>]
        context_chunks == IF first.chunks /= <<>> THEN first.chunks ELSE second.chunks
        searches == IF first.chunks /= <<>> THEN 1 ELSE 2
        response_text == ChatWithContextCall
    IN  IF UserMessages(messages) = <<>> THEN failed("HTTPException", 400, 0)
        ELSE IF first.raised THEN failed("Exception", 0, 1)
        ELSE IF first.chunks = <<>> /\ second.raised THEN failed("Exception", 0, 2)
        ELSE IF ~ChatResponseValid(response_text)
        THEN failed("ValidationError", 0, searches)
        ELSE [exc |-> "none", code |-> 200, searches |-> searches,
              called |-> response_text.called, sources |-> Sources(context_chunks)]

ChatHandler(messages, first, second) == ExceptException(ChatBody(messages, first, second))

\* POST /api/chat
Chat ==
    /\ last = NoRequest
    /\ \E messages \in MessageLists :
       \E first \in ChatSearches(RequestTopic, NoneStr, ChatTopK) :
       \E second \in (IF ~first.raised /\ first.chunks = <<>>
                      THEN ChatSearches(RequestTopic, DefaultClass, ChatFallbackTopK)
                      ELSE {first}) :
           LET r == ChatHandler(messages, first, second)
           IN  last' = [op |-> "chat", status |-> r.code, messages |-> messages,
                        searches |-> r.searches,
                        search_raised |-> first.raised \/ second.raised,
                        llm |-> IF r.called THEN "called" ELSE "not_called",
                        sources |-> r.sources]
    /\ UNCHANGED <<quiz_storage, evaluation_storage, ret, ing, chat, app, pending, tag, book>>

(***************************************************************************)
(* config.py, the module-level service instances and the two entry points  *)
(* (main.py under uvicorn, lambda_handler.py).  What a client library does *)
(* with an empty API key is not in this repository: its constructor either *)
(* accepts the key or raises.                                              *)
(***************************************************************************)
\* OPENAI_API_KEY: str = "", PINECONE_API_KEY: str = "", OCR_PROVIDER: str = "openai"
SettingsValues ==
    [OPENAI_API_KEY : {"", "sk-1"}, PINECONE_API_KEY : {"", "pc-1"},
     OCR_PROVIDER : {"openai", "Tesseract", "abbyy"}]

\* the providers _init_provider knows
OcrProviders == {"openai", "tesseract", "easyocr", "paddleocr"}

\* settings.OCR_PROVIDER.lower()
Lower(s) == IF s = "Tesseract" THEN "tesseract" ELSE s

\* the warnings config.py gives at import; it raises nothing
ConfigWarnings(settings) ==
    (IF ~Truthy(settings.OPENAI_API_KEY) THEN {"OPENAI_API_KEY"} ELSE {})
    \cup (IF ~Truthy(settings.PINECONE_API_KEY) THEN {"PINECONE_API_KEY"} ELSE {})

\* a client constructor given a key: an empty key is accepted or refused
ClientRaises(api_key, accepts_empty) == api_key = "" /\ ~accepts_empty

\* ocr_service = OCRService() at the import of ocr_service.py
OcrServiceInit(settings, accepts_empty) ==
    LET provider == Lower(settings.OCR_PROVIDER)
    IN  IF provider = "openai"
        THEN (IF ClientRaises(settings.OPENAI_API_KEY, accepts_empty)
              THEN "OpenAIError" ELSE "none")
        ELSE IF provider \in OcrProviders THEN "none"
        ELSE "ValueError"

\* PineconeService() as _LazyPineconeService.__getattr__ makes it
PineconeServiceInit(settings, accepts_empty) ==
    IF ClientRaises(settings.PINECONE_API_KEY, accepts_empty) THEN "PineconeError"
    ELSE IF ClientRaises(settings.OPENAI_API_KEY, accepts_empty) THEN "OpenAIError"
    ELSE "none"

\* the import of main (config, routers, services) under an entry point:
\* uvicorn ends on an exception, lambda_handler.py catches it and installs a
\* handler that answers 500 to every event
ImportMain(settings, entry, accepts_empty) ==
    IF OcrServiceInit(settings, accepts_empty) = "none" THEN "serving"
    ELSE IF entry = "lambda" THEN "init_failed"
    ELSE "exited"

ConfigValid(settings) ==
    /\ Truthy(settings.OPENAI_API_KEY)
    /\ Truthy(settings.PINECONE_API_KEY)
    /\ Lower(settings.OCR_PROVIDER) \in OcrProviders

NotServed == [endpoint |-> "none", status |-> 0]

Starting(settings, entry) ==
    [settings |-> settings, entry |-> entry, phase |-> "start", warnings |-> {},
     pinecone_service |-> "None", served |-> NotServed]

\* the process the handlers of Spec run in: started, with every key set
Serving ==
    [Starting([OPENAI_API_KEY |-> "sk-1", PINECONE_API_KEY |-> "pc-1",
               OCR_PROVIDER |-> "openai"], "uvicorn")
        EXCEPT !.phase = "serving"]

\* the process starts: main is imported
Startup ==
    /\ app.phase = "start"
    /\ \E accepts_empty \in BOOLEAN :
        app' = [app EXCEPT !.phase = ImportMain(app.settings, app.entry, accepts_empty),
                           !.warnings = ConfigWarnings(app.settings)]
    /\ UNCHANGED <<quiz_storage, evaluation_storage, last, ret, ing, chat, pending, tag, book>>

\* GET /health
ServeHealth ==
    /\ app.phase \in {"serving", "init_failed"}
    /\ app' = [app EXCEPT !.served =
                  [endpoint |-> "health",
                   status |-> IF app.phase = "serving" THEN 200 ELSE 500]]
    /\ UNCHANGED <<quiz_storage, evaluation_storage, last, ret, ing, chat, pending, tag, book>>

\* POST /api/summary: the first use of pinecone_service makes PineconeService;
\* a call made with an empty key is refused by the remote service; every
\* exception is answered 500 by the handler's except Exception
ServeSummary ==
    /\ app.phase \in {"serving", "init_failed"}
    /\ \E accepts_empty \in BOOLEAN, remote_ok \in BOOLEAN :
        LET init == IF app.pinecone_service = "None"
                    THEN PineconeServiceInit(app.settings, accepts_empty)
                    ELSE "none"
            keys_set == /\ Truthy(app.settings.OPENAI_API_KEY)
                        /\ Truthy(app.settings.PINECONE_API_KEY)
            status == IF app.phase = "init_failed" \/ init /= "none" THEN 500
                      ELSE IF keys_set /\ remote_ok THEN 200
                      ELSE 500
        IN  app' = [app EXCEPT
                      !.pinecone_service =
                          IF app.phase = "serving" /\ init = "none"
                          THEN "PineconeService" ELSE @,
                      !.served = [endpoint |-> "summary", status |-> status]]
    /\ UNCHANGED <<quiz_storage, evaluation_storage, last, ret, ing, chat, pending, tag, book>>

(***************************************************************************)
(* Specifications.                                                         *)
(***************************************************************************)
Init ==
    /\ quiz_storage = <<>>
    /\ evaluation_storage = <<>>
    /\ last = NoRequest
    /\ ret = NoCall
    /\ ing = Idle({})
    /\ chat = NoStream
    /\ app = Serving
    /\ pending = NoPending
    /\ tag = NoTag
    /\ book = NoBook

NextRetrieve == CallGetRelevantChunks \/ CallSearchByTopic

SpecRetrieve == Init /\ [][NextRetrieve]_vars

\* The ingestion script, run up to MaxRuns times on one books folder.  The
\* script is sequential: a step that can be taken is taken.
InitIngest ==
    /\ quiz_storage = <<>>
    /\ evaluation_storage = <<>>
    /\ last = NoRequest
    /\ ret = NoCall
    /\ ing \in {Idle(books_folder) : books_folder \in SUBSET Files}
    /\ chat = NoStream
    /\ app = Serving
    /\ pending = NoPending
    /\ tag = NoTag
    /\ book = NoBook

NextIngest == StartIngest \/ IngestBook \/ IngestComplete

\* extract_class_from_filename on every file name of Filenames.
InitClass ==
    /\ quiz_storage = <<>>
    /\ evaluation_storage = <<>>
    /\ last = NoRequest
    /\ ret = NoCall
    /\ ing = Idle({})
    /\ chat = NoStream
    /\ app = Serving
    /\ pending = NoPending
    /\ tag \in {[NoTag EXCEPT !.filename = f] : f \in Filenames}
    /\ book = NoBook

NextClass == ExtractClass

SpecClass == InitClass /\ [][NextClass]_vars

SpecIngest == InitIngest /\ [][NextIngest]_vars /\ WF_vars(IngestBook \/ IngestComplete)

\* The two chat endpoints.
NextChat == ChatStreamOpen \/ StreamFragment \/ StreamRaise \/ StreamEnd \/ Chat

SpecChat == Init /\ [][NextChat]_vars

\* The streaming endpoint when the completion stream goes on: it ends or it
\* raises (max_tokens=500 bounds the completion).
SpecChatStream == SpecChat /\ WF_vars(StreamEnd \/ StreamRaise)

\* The start of the process under every configuration.
InitStartup ==
    /\ quiz_storage = <<>>
    /\ evaluation_storage = <<>>
    /\ last = NoRequest
    /\ ret = NoCall
    /\ ing = Idle({})
    /\ chat = NoStream
    /\ app \in {Starting(settings, entry) :
                   settings \in SettingsValues, entry \in {"uvicorn", "lambda"}}
    /\ pending = NoPending
    /\ tag = NoTag
    /\ book = NoBook

NextStartup == Startup \/ ServeHealth \/ ServeSummary

SpecStartup == InitStartup /\ [][NextStartup]_vars

Next ==
    \/ GenerateQuiz
    \/ GetQuiz
    \/ GenerateSummary
    \/ EvaluateMultipart
    \/ EvaluateJson
    \/ GetEvaluation

Spec == Init /\ [][Next]_vars

\* The quiz and evaluation endpoints called by several clients at once.
NextConcurrent ==
    \/ ConcurrentGenerateQuiz
    \/ ConcurrentGetQuiz
    \/ EvaluateBegin
    \/ EvaluateResume
    \/ GetEvaluation

SpecConcurrent == Init /\ [][NextConcurrent]_vars

(***************************************************************************)
(* Properties of the retriever, checked under SpecRetrieve.                *)
(***************************************************************************)
Returned == ret.fn /= "none" /\ ~ret.out.raised

\* C1: no element of the list get_relevant_chunks returns has a score below
\* 0.25, whatever the store answered and with or without topic and class.
C1_NoChunkBelowThreshold ==
    Returned => \A i \in 1..Len(ret.out.chunks) : ret.out.chunks[i].score >= 25

\* A store answer holding a match below 0.25 next to one that is returned.
C1_Witness ==
    /\ Returned
    /\ ret.out.chunks /= <<>>
    /\ \E i \in 1..Len(ret.matches) : ret.matches[i].score < 25

\* C2: called with a class level (a non-empty string), the retriever queries
\* the store with the equality filter on that class and every chunk it
\* returns is of that class.
C2_ClassFilterHonoured ==
    (ret.fn /= "none" /\ Truthy(ret.class_level)) =>
        /\ ret.out.call.store_filter = [has |-> TRUE, class |-> ret.class_level]
        /\ \A i \in 1..Len(ret.out.chunks) :
               ret.out.chunks[i].class = ret.class_level

C2_Witness ==
    /\ ret.fn = "search_by_topic"
    /\ ret.class_level = "Class IX"
    /\ Len(ret.out.chunks) = 2

\* The positions of the store's answer that clear the threshold.
Passing == {i \in 1..Len(ret.matches) : ret.matches[i].score >= 25}

\* C3: the result is the first top_k of the store's ranked matches that clear
\* the threshold, in the store's order: never more than the requested top_k,
\* also when the store was asked for 2 * top_k.
C3_FirstTopKInOrder ==
    Returned =>
        /\ Len(ret.out.chunks) = Min(ret.top_k, Cardinality(Passing))
        /\ \A j \in 1..Len(ret.out.chunks) :
               \E i \in Passing :
                   /\ Cardinality({k \in Passing : k < i}) = j - 1
                   /\ ret.out.chunks[j].score = ret.matches[i].score
                   /\ ret.out.chunks[j].class = ret.matches[i].class
        /\ \A j \in 1..(Len(ret.out.chunks) - 1) :
               ret.out.chunks[j].score >= ret.out.chunks[j + 1].score

\* The store was asked for 2 * top_k, answered more passing matches than
\* top_k, and the result was cut to top_k.
C3_Witness ==
    /\ Returned
    /\ ret.out.call.store_top_k = 2 * ret.top_k
    /\ Cardinality(Passing) > ret.top_k
    /\ Len(ret.out.chunks) = ret.top_k
    /\ ret.out.chunks[1].score > ret.out.chunks[ret.top_k].score

(***************************************************************************)
(* Properties of the request handlers, checked under Spec.                 *)
(***************************************************************************)
\* C4: when the model's answer to the quiz prompt is not JSON, generate_quiz
\* yields an empty question list, and the quiz endpoint answers with a quiz of
\* no questions (total_questions 0), not with a server error.
C4_MalformedQuizIsEmpty ==
    (last.op = "generate_quiz" /\ last.llm = "text") =>
        /\ last.status = 200
        /\ last.questions = <<>>
        /\ last.total_questions = 0

C4_Witness ==
    /\ last.op = "generate_quiz"
    /\ last.llm = "text"
    /\ last.quiz_id \in DOMAIN quiz_storage
    /\ quiz_storage[last.quiz_id].questions = <<>>

\* C5: when the model's answer to the evaluation prompt is not JSON, the
\* evaluation is the fallback: no answer correct, 0 percent, as many questions
\* as the quiz has, and a feedback text that is not empty; nothing is raised.
C5_MalformedEvaluationFallsBack ==
    (last.op = "evaluate" /\ last.llm = "text") =>
        /\ last.status = 200
        /\ last.response.correct_count = 0
        /\ last.response.score_percentage = 0
        /\ last.response.total_questions = Len(quiz_storage[last.quiz_id].questions)
        /\ last.response.feedback /= ""
        /\ last.evaluation_id \in DOMAIN evaluation_storage
        /\ evaluation_storage[last.evaluation_id].correct_count = I(0)

C5_Witness ==
    /\ last.op = "evaluate"
    /\ last.llm = "text"
    /\ last.status = 200
    /\ last.response.total_questions = 3

\* C6: every evaluation an evaluate endpoint returns has
\* 0 <= correct_count <= total_questions, and score_percentage equal to
\* 100 * correct_count / total_questions, or 0 when there is no question.
C6_EvaluationArithmetic ==
    (last.op \in {"evaluate", "evaluate_json"} /\ last.status = 200) =>
        LET r == last.response
        IN  /\ 0 <= r.correct_count
            /\ r.correct_count <= r.total_questions
            /\ r.total_questions > 0 =>
                   r.score_percentage * r.total_questions = 100 * r.correct_count
            /\ r.total_questions = 0 => r.score_percentage = 0

\* C7: in every stored quiz the question ids are pairwise distinct, and a
\* question has options exactly when it is an mcq, which then has 4 of them.
C7_StoredQuizInvariant ==
    \A id \in DOMAIN quiz_storage :
        LET qs == quiz_storage[id].questions
        IN  /\ \A i, j \in 1..Len(qs) :
                   i /= j => qs[i].question_id.v /= qs[j].question_id.v
            /\ \A i \in 1..Len(qs) :
                   /\ qs[i].options.t = "list" <=> qs[i].question_type.v = "mcq"
                   /\ qs[i].question_type.v = "mcq" => Len(qs[i].options.v) = 4

CountOfType(qs, type) ==
    Cardinality({i \in 1..Len(qs) : qs[i].question_type.v = type})

\* C8: a successful quiz generation returns exactly the requested number of
\* questions of each type, and every mcq has a non-empty correct answer that
\* is one of its options.
C8_RequestedCounts ==
    (last.op = "generate_quiz" /\ last.status = 200) =>
        LET qs == last.questions
        IN  /\ CountOfType(qs, "mcq") = last.counts[1]
            /\ CountOfType(qs, "fill_blank") = last.counts[2]
            /\ CountOfType(qs, "short_answer") = last.counts[3]
            /\ Len(qs) = last.counts[1] + last.counts[2] + last.counts[3]
            /\ \A i \in 1..Len(qs) :
                   qs[i].question_type.v = "mcq" =>
                       /\ qs[i].correct_answer.v /= ""
                       /\ \E k \in 1..Len(qs[i].options.v) :
                              qs[i].options.v[k] = qs[i].correct_answer.v

\* C9: an evaluation request for a quiz id that is not stored is answered 404
\* by both evaluate endpoints, and the model is not called.
C9_UnknownQuizIs404 ==
    (/\ last.op \in {"evaluate", "evaluate_json"}
     /\ last.quiz_id \notin DOMAIN quiz_storage) =>
        /\ last.status = 404
        /\ last.llm = "not_called"

\* C10: when the search for the topic returns no passage, the summary and
\* the quiz endpoint answer 404, not 500.
C10_NoContentIs404 ==
    (/\ last.op \in {"generate_summary", "generate_quiz"}
     /\ last.searched
     /\ ~last.search.raised
     /\ last.search.chunks = <<>>) =>
        last.status = 404

\* C11: every evaluation an evaluate endpoint produced is stored under an id
\* of its own, and get_evaluation with that id answers with that evaluation
\* (status 200).
C11_StoredEvaluationRetrievable ==
    (last.op = "get_evaluation" /\ last.evaluation_id \in DOMAIN evaluation_storage) =>
        last.status = 200

\* C12: for a stored quiz, an evaluation request with answers and no file
\* (multipart /evaluate without file, or /evaluate-json) reaches the model
\* call and is not answered with a server error.
C12_EvaluationWithoutFile ==
    (/\ last.op \in {"evaluate", "evaluate_json"}
     /\ last.quiz_id \in DOMAIN quiz_storage
     /\ last.file = "none"
     /\ last.answers = "object") =>
        /\ last.llm /= "not_called"
        /\ last.status /= 500

(***************************************************************************)
(* Properties of the ingestion script, checked under SpecIngest.           *)
(***************************************************************************)
\* C13: a run of ingest_all_books on a folder that an earlier run has
\* ingested without a failure leaves as many records in the index as that
\* earlier run left.
C13_IngestionIdempotent ==
    \A i \in 1..(Len(ing.runs) - 1) :
        (ing.runs[i].failed = <<>> /\ ing.runs[i + 1].failed = <<>>) =>
            ing.runs[i + 1].records = ing.runs[i].records

C14_Attempted ==
    ing.pc = "done" => ing.attempted = SortedFiles(PdfFiles(ing.books_folder))

\* C14: a run attempts process_book on every PDF of the folder, in sorted
\* order, whichever of them fail, and every run that has begun completes.
C14_EveryBookAttempted ==
    /\ []C14_Attempted
    /\ (ing.pc = "running") ~> (ing.pc = "done")

C14_Witness ==
    /\ ing.pc = "done"
    /\ Len(ing.attempted) = 3
    /\ ing.failed = <<ing.attempted[1], ing.attempted[2]>>
    /\ ing.calls = <<100, 1>>

\* C15: the total reported at the end of a run is the number of chunks the
\* run has upserted into the index.
C15_ReportedTotal ==
    (ing.pc = "done" /\ ing.runs[Len(ing.runs)].reported) =>
        ing.total_chunks = ing.upserted

(***************************************************************************)
(* Properties of the chat endpoints, checked under SpecChat.               *)
(***************************************************************************)
\* C16: a POST /api/chat with a user message whose retrieval does not fail
\* makes the completion call and is answered 200 with the model's text and
\* the sources of the first 3 context passages.
C16_ChatReturnsWhole ==
    (last.op = "chat" /\ UserMessages(last.messages) /= <<>> /\ ~last.search_raised) =>
        /\ last.status = 200
        /\ last.llm = "called"

ChunksOf(events) ==
    LET es == SelectSeq(events, LAMBDA e : e.type = "chunk")
    IN  [i \in 1..Len(es) |-> es[i].chunk]

RECURSIVE Concat(_)
Concat(fragments) ==
    IF fragments = <<>> THEN "" ELSE Head(fragments) \o Concat(Tail(fragments))

\* C17: the chunk events of a stream are the fragments of the model that are
\* not None, in the model's order; a done event is the last event, stands
\* after chunk events only, and carries the concatenation of the forwarded
\* fragments and the sources of the first 3 context passages; a stream that
\* ended without an error has that done event.
C17_StreamForwardsInOrder ==
    /\ ChunksOf(chat.events) = SelectSeq(chat.emitted, LAMBDA f : f /= NoneStr)
    /\ \A i \in 1..Len(chat.events) :
          chat.events[i].type = "done" =>
              /\ i = Len(chat.events)
              /\ \A j \in 1..(i - 1) : chat.events[j].type = "chunk"
              /\ chat.events[i].full_response = Concat(ChunksOf(chat.events))
              /\ Len(chat.events[i].sources) = Min(3, Len(chat.context_chunks))
              /\ \A k \in 1..Len(chat.events[i].sources) :
                    chat.events[i].sources[k].class = chat.context_chunks[k].class
    /\ (chat.pc = "closed" /\ \A i \in 1..Len(chat.events) : chat.events[i].type /= "error")
          => (chat.events /= <<>> /\ chat.events[Len(chat.events)].type = "done")

C17_Witness ==
    /\ chat.pc = "closed"
    /\ chat.emitted = <<"Li", NoneStr, "ght">>
    /\ Len(chat.events) = 3
    /\ chat.events[3].type = "done"
    /\ chat.events[3].full_response = "Light"
    /\ Len(chat.context_chunks) = 4
    /\ Len(chat.events[3].sources) = 3

(***************************************************************************)
(* Properties of the summary parse, checked under Spec.                    *)
(***************************************************************************)
\* C18: a summary request whose model call returns text is answered without
\* an error, and when the text has no "SUMMARY:" marker the summary is the
\* whole text and there are no key points.
C18_SummaryFallback ==
    (last.op = "generate_summary" /\ last.llm = "text") =>
        /\ last.status = 200
        /\ (\A i \in 1..Len(last.content) : last.content[i] /= SummaryMarker) =>
              (last.summary = last.content /\ last.key_points = <<>>)

C18_Witness ==
    /\ last.op = "generate_summary"
    /\ last.llm = "text"
    /\ last.content = <<"", "Light bends.", KeyPointsMarker, "- Lenses">>
    /\ last.summary = last.content
    /\ last.key_points = <<>>

(***************************************************************************)
(* Transient failures, checked under SpecRetrieve.                         *)
(***************************************************************************)
\* C19: a retriever call in which the embedding call or the store query
\* fails does not raise: it returns its degraded result, no chunks.
C19_FailureDegrades ==
    ret.fn /= "none" => ~ret.out.raised

(***************************************************************************)
(* The configuration, checked under SpecStartup.                           *)
(***************************************************************************)
\* C20: the process serves requests only with both API keys set and a known
\* OCR provider.
C20_ConfigErrorFatal ==
    app.phase = "serving" => ConfigValid(app.settings)

(***************************************************************************)
(* Properties of the keyed stores under interleaving, checked under        *)
(* SpecConcurrent.                                                         *)
(***************************************************************************)
C21_StoredAndReturned ==
    /\ (last.op = "generate_quiz" /\ last.status = 200) =>
          /\ last.quiz_id \in DOMAIN quiz_storage
          /\ quiz_storage[last.quiz_id].questions = last.questions
    /\ (last.op = "get_quiz" /\ last.status = 200) =>
          last.questions = quiz_storage[last.quiz_id].questions
    /\ pending.active =>
          /\ pending.quiz_id \in DOMAIN quiz_storage
          /\ quiz_storage[pending.quiz_id] = pending.quiz_data

C21_QuizKept ==
    \A quiz_id \in DOMAIN quiz_storage :
        /\ quiz_id \in DOMAIN quiz_storage'
        /\ quiz_storage'[quiz_id] = quiz_storage[quiz_id]

\* C21: under every interleaving of generation, evaluation and lookup
\* requests, a quiz that was stored stays in quiz_storage under its own id
\* with the questions it was created with; the response of the generation
\* and every get_quiz carry those questions, and an evaluation suspended at
\* its await still finds the quiz it read.
C21_StoresNotCorrupted ==
    /\ []C21_StoredAndReturned
    /\ [][C21_QuizKept]_vars

C21_Witness ==
    /\ pending.active
    /\ pending.quiz_id = 1
    /\ Len(quiz_storage) = 2
    /\ quiz_storage[1].questions /= quiz_storage[2].questions
    /\ last.op = "get_quiz"
    /\ last.status = 200
    /\ last.quiz_id = 1

(***************************************************************************)
(* Properties of the lookups, checked under Spec.                          *)
(***************************************************************************)
C22_UnknownIs404 ==
    /\ (last.op = "get_quiz" /\ last.quiz_id \notin DOMAIN quiz_storage) =>
          last.status = 404
    /\ (last.op = "get_evaluation" /\ last.evaluation_id \notin DOMAIN evaluation_storage) =>
          last.status = 404

C22_LookupChangesNoStore ==
    last'.op \in {"get_quiz", "get_evaluation"} =>
        UNCHANGED <<quiz_storage, evaluation_storage>>

\* C22: get_quiz and get_evaluation with an id that is not stored answer
\* 404, not 500, and a lookup changes neither store.
C22_UnknownIdNotFound ==
    /\ []C22_UnknownIs404
    /\ [][C22_LookupChangesNoStore]_vars

C22_Witness ==
    /\ last.op = "get_evaluation"
    /\ last.status = 404
    /\ last.evaluation_id = 1
    /\ Len(quiz_storage) = 1
    /\ evaluation_storage = <<>>

(***************************************************************************)
(* The query sent to the vector store, checked under SpecRetrieve.         *)
(***************************************************************************)
\* C23: the query of get_relevant_chunks asks for 2 * top_k matches with the
\* filter class = class_level when a class level is given (a non-empty
\* string), and for top_k matches with no filter otherwise.
C23_DoubledWhenFiltered ==
    (ret.fn /= "none" /\ ret.out.queried) =>
        IF ret.class_level \notin {NoneStr, ""}
        THEN /\ ret.out.call.store_top_k = 2 * ret.top_k
             /\ ret.out.call.store_filter.has
             /\ ret.out.call.store_filter.class = ret.class_level
        ELSE /\ ret.out.call.store_top_k = ret.top_k
             /\ ~ret.out.call.store_filter.has

C23_Witness ==
    /\ ret.fn = "get_relevant_chunks"
    /\ ret.class_level = "Class IX"
    /\ ret.top_k = 2
    /\ ret.out.call.store_top_k = 4
    /\ Len(ret.matches) = 4

(***************************************************************************)
(* Properties of process_book, checked under SpecIngest.                   *)
(***************************************************************************)
RECURSIVE Flatten(_)
Flatten(seqs) == IF seqs = <<>> THEN <<>> ELSE Head(seqs) \o Flatten(Tail(seqs))

\* the chunk list of the process_book call made last
BookChunks ==
    AllChunks(book.name, BookPages(book.name), 1, book.first_id)

\* C24: a process_book call in which nothing fails makes ceil(n / 100)
\* upsert calls for its n chunks, each of at most 100 vectors; the batches
\* in order are the chunk list in order, every chunk once, and the record
\* upserted for a chunk has the chunk's id, the embedding of the chunk's
\* text and the chunk's metadata.
C24_BatchesPartitionChunks ==
    (book.name /= "" /\ book.failure.at = "none") =>
        LET chunks == BookChunks
            n == Len(chunks)
            batches == ing.batches
        IN  /\ Len(batches) * BatchSize >= n
            /\ (Len(batches) - 1) * BatchSize < n
            /\ \A j \in 1..Len(batches) : Len(batches[j]) \in 1..BatchSize
            /\ Flatten(batches) = [i \in 1..n |-> chunks[i].id]
            /\ \A i, k \in 1..n : chunks[i].id = chunks[k].id => i = k
            /\ \A i \in 1..n :
                  [id |-> chunks[i].id,
                   values |-> [of |-> chunks[i].text],
                   metadata |-> chunks[i].metadata] \in ing.index

C24_Witness ==
    /\ book.name = "class9.pdf"
    /\ book.failure.at = "none"
    /\ Len(ing.batches) = 2
    /\ Len(ing.batches[1]) = 100
    /\ Len(ing.batches[2]) = 1
    /\ book.first_id = 2

C25_FailedBatchFrame ==
    /\ ing.index \subseteq ing'.index
    /\ (Len(ing'.attempted) = Len(ing.attempted) + 1 /\ book'.failure.at = "upsert") =>
          LET upserted == Flatten(ing'.batches)
          IN  /\ Len(ing'.batches) = book'.failure.batch - 1
              /\ {r.id : r \in ing'.index \ ing.index}
                    = {upserted[i] : i \in 1..Len(upserted)}

\* C25: when the upsert of batch j of a book fails, the batches upserted for
\* the book are the j - 1 before it and no later one, and every record that
\* was in the index, of this book or of a book ingested before, is in the
\* index unchanged.
C25_EarlierRecordsRemain == [][C25_FailedBatchFrame]_vars

C25_Witness ==
    /\ book.name = "class9.pdf"
    /\ book.failure.at = "upsert"
    /\ book.failure.batch = 2
    /\ Len(ing.batches) = 1
    /\ Cardinality(ing.index) = 101
    /\ \E r \in ing.index : r.metadata.source_file = "class10.pdf"

\* a text that is empty or has white space only
Blank(text) == \A i \in 1..Len(text) : SubSeq(text, i, i) \in {" ", "\t", "\n"}

\* C26: a page whose text is empty or white space only is not given to the
\* chunker and has no chunk; the pages after it are chunked all the same,
\* and every chunk carries the number its page has in the book, from 1.
C26_EmptyPagesSkipped ==
    (book.name /= "" /\ book.failure.at /= "load") =>
        LET pages == BookPages(book.name)
            numbers == [p \in 1..Len(pages) |-> p]
            own == {r \in ing.index : /\ r.id >= book.first_id
                                      /\ r.metadata.source_file = book.name}
        IN  /\ \A k \in 1..Len(ing.chunked) : ~Blank(pages[ing.chunked[k]].text)
            /\ book.failure.at /= "chunk" =>
                  ing.chunked = SelectSeq(numbers, LAMBDA p : ~Blank(pages[p].text))
            /\ book.failure.at = "none" =>
                  \A p \in 1..Len(pages) :
                      Cardinality({r \in own : r.metadata.page_number = p})
                          = IF Blank(pages[p].text) THEN 0 ELSE pages[p].chunks

C26_Witness ==
    /\ book.name = "class9.pdf"
    /\ book.failure.at = "none"
    /\ ing.chunked = <<1, 4>>
    /\ Cardinality({r \in ing.index : r.metadata.page_number = 4}) = 41

(***************************************************************************)
(* extract_class_from_filename, checked under SpecClass.                   *)
(***************************************************************************)
ClassPatterns ==
    <<[pattern |-> "class8", class |-> "Class VIII"],
      [pattern |-> "classviii", class |-> "Class VIII"],
      [pattern |-> "class9", class |-> "Class IX"],
      [pattern |-> "classix", class |-> "Class IX"],
      [pattern |-> "class10", class |-> "Class X"],
      [pattern |-> "classx", class |-> "Class X"]>>

C27_ClassOfName ==
    tag.called =>
        LET filename_lower == StrLower(tag.filename)
            matching == {i \in 1..Len(ClassPatterns) :
                            Contains(ClassPatterns[i].pattern, filename_lower)}
            first == CHOOSE i \in matching : \A j \in matching : i <= j
        IN  /\ tag.class \in {"Class VIII", "Class IX", "Class X", "Unknown"}
            /\ tag.class = "Unknown" <=> matching = {}
            /\ matching /= {} => tag.class = ClassPatterns[first].class

C27_SameAnswer == (tag.called /\ tag'.filename = tag.filename) => tag'.class = tag.class

\* C27: for every file name extract_class_from_filename returns one of
\* Class VIII, Class IX, Class X and Unknown, the same at every call: Unknown
\* exactly when none of the six patterns occurs in the lower-cased name,
\* else the class of the first pattern, in the order of the if chain, that
\* occurs in it.
C27_ExtractClassTotal ==
    /\ []C27_ClassOfName
    /\ [][C27_SameAnswer]_vars

C27_Witness ==
    /\ tag.called
    /\ tag.filename = "Science-class9class8.PDF"
    /\ tag.class = "Class VIII"

(***************************************************************************)
(* The key points of a summary, checked under Spec.  In the responses of   *)
(* SummaryContents a line that begins with "*" stands for a line that      *)
(* begins with the bullet U+2022 the prompt asks for.                      *)
(***************************************************************************)
Digits == {"0", "1", "2", "3", "4", "5", "6", "7", "8", "9"}

\* a line that begins with an enumerator ("1.") or with a bullet marker
BeginsWithMarker(line) ==
    \/ Len(line) >= 1 /\ SubSeq(line, 1, 1) \in {"-", "*"}
    \/ Len(line) >= 2 /\ SubSeq(line, 1, 1) \in Digits /\ SubSeq(line, 2, 2) = "."

\* C28: when the response has the SUMMARY: marker, the key points are the
\* lines after KEY POINTS: that begin with an enumerator or a bullet marker,
\* in their order, the first 5 of them; no response gives more than 5.
C28_KeyPointsAreMarkedLines ==
    (last.op = "generate_summary" /\ last.status = 200) =>
        /\ Len(last.key_points) <= MaxKeyPoints
        /\ (\E i \in 1..Len(last.content) : last.content[i] = SummaryMarker) =>
              last.key_points
                 = Take(SelectSeq(SplitPart(last.content, 1), BeginsWithMarker), MaxKeyPoints)

(***************************************************************************)
(* The effect of generate_quiz on quiz_storage, checked under Spec.        *)
(***************************************************************************)
C29_StoreWithResponse ==
    /\ (last'.op = "generate_quiz" /\ last'.status /= 200) =>
          quiz_storage' = quiz_storage
    /\ (last'.op = "generate_quiz" /\ last'.status = 200) =>
          /\ last'.quiz_id \notin DOMAIN quiz_storage
          /\ last'.quiz_id \in DOMAIN quiz_storage'
    /\ quiz_storage' /= quiz_storage =>
          /\ last'.op = "generate_quiz"
          /\ last'.status = 200
          /\ DOMAIN quiz_storage' = DOMAIN quiz_storage \cup {last'.quiz_id}
          /\ last'.total_questions = Len(quiz_storage'[last'.quiz_id].questions)

\* C29: a generate_quiz request that is not answered 200 leaves quiz_storage
\* as it was; quiz_storage gets a new id exactly in the step of a request
\* answered 200 with that id, whose total_questions is the number of
\* questions stored under it.
C29_StoredIffSucceeded == [][C29_StoreWithResponse]_vars

C29_Witness ==
    /\ Len(quiz_storage) = 1
    /\ last.op = "generate_quiz"
    /\ last.status = 500
    /\ last.llm = "object"

(***************************************************************************)
(* The end of a chat stream, checked under SpecChatStream.                 *)
(***************************************************************************)
Terminal(event) == event.type \in {"done", "error"}

C30_TerminalLast ==
    /\ \A i \in 1..Len(chat.events) :
          Terminal(chat.events[i]) => (i = Len(chat.events) /\ chat.pc = "closed")
    /\ chat.pc = "closed" =>
          /\ chat.events /= <<>>
          /\ Terminal(chat.events[Len(chat.events)])
    /\ (chat.pc = "closed" /\ UserMessages(chat.messages) = <<>>) =>
          /\ chat.events = <<ErrorEvent>>
          /\ chat.searches = 0
          /\ ~chat.called
    /\ (chat.pc = "closed" /\ chat.raised) =>
          /\ chat.events[Len(chat.events)] = ErrorEvent
          /\ \A i \in 1..Len(chat.events) : chat.events[i].type /= "done"
          /\ ChunksOf(chat.events) = SelectSeq(chat.emitted, Yielded)

C30_NothingFollows == chat.pc = "closed" => chat' = chat

\* C30: every stream comes to its end, and has then one done or error event,
\* which is its last event; a request without a user message has the error
\* event only, and neither a search nor a completion call was made; when a
\* search or the completion raises, the events are the chunk events sent so
\* far and then the error event, and no done event.
C30_StreamEndsOnce ==
    /\ []C30_TerminalLast
    /\ [][C30_NothingFollows]_vars
    /\ (chat.pc = "streaming") ~> (chat.pc = "closed")

C30_Witness ==
    /\ chat.pc = "closed"
    /\ chat.raised
    /\ Len(chat.events) = 3
    /\ chat.events[1].type = "chunk"
    /\ chat.events[2].type = "chunk"
    /\ chat.events[3].type = "error"

====
